---- MODULE Spec2Model ----
(***************************************************************************)
(* State-machine model of src/src/camera.cpp: the camera session           *)
(* (rs_camera), its subdevice handles, and the triple-buffered             *)
(* stream_buffer shared by the transport's frame callback (producer) and   *)
(* the thread that calls wait_all_streams (consumer).                      *)
(*                                                                         *)
(* The session operations (enable_stream, enable_stream_preset,            *)
(* configure_enabled_streams, start_capture, stop_capture) run on the      *)
(* consumer thread and are one action each.  wait_all_streams and the      *)
(* frame callback are split at every point where the other thread can      *)
(* interleave: the unlocked read of `updated`, taking the mutex, and the   *)
(* exchange made under the mutex.                                          *)
(***************************************************************************)
EXTENDS Integers, Sequences, FiniteSets, TLC

\* ------------------------------------------------------------------ bounds

\* Frames the transport delivers, over all subdevices, before the model stops it.
MaxFrames == 2

\* ----------------------------------------------------------- static catalog
\* camera_info (static_camera_info) is data supplied by the camera model; the
\* catalog below is a small instance of it.

\* Logical streams, in the order of the `streams` / `requests` arrays.
StreamOrder == <<"depth", "color", "infrared", "points">>

Streams == {StreamOrder[k] : k \in 1..Len(StreamOrder)}

\* camera_info.stream_subdevices: the subdevice serving each stream, -1 if the
\* camera does not support the stream.
stream_subdevices ==
    [s \in Streams |-> CASE s = "color" -> 0
                         [] s = "depth" -> 1
                         [] s = "infrared" -> 1
                         [] OTHER -> -1]

\* camera_info.subdevice_modes, in catalog order.  `decoder` says whether the
\* mode has a frame_number_decoder.
subdevice_modes ==
    << [subdevice |-> 0, decoder |-> FALSE,
        streams |-> << [stream |-> "color", width |-> 640, fps |-> 60,
                        intrinsics_index |-> 1] >>],
       [subdevice |-> 0, decoder |-> FALSE,
        streams |-> << [stream |-> "color", width |-> 640, fps |-> 30,
                        intrinsics_index |-> 1] >>],
       [subdevice |-> 1, decoder |-> TRUE,
        streams |-> << [stream |-> "depth", width |-> 640, fps |-> 30,
                        intrinsics_index |-> 2],
                       [stream |-> "infrared", width |-> 640, fps |-> 30,
                        intrinsics_index |-> 2] >>] >>

ModeIds == 1..Len(subdevice_modes)

\* subdevices.resize(max_subdevice+1) in the constructor.
max_subdevice ==
    CHOOSE n \in {subdevice_modes[k].subdevice : k \in ModeIds} :
        \A k \in ModeIds : subdevice_modes[k].subdevice <= n

Subdevices == 0..max_subdevice

\* rsimpl::stream_request(): the default-constructed, disabled request.
stream_request == [enabled |-> FALSE, width |-> 0, fps |-> 0]

\* camera_info.presets[stream][preset]; a disabled entry means "unsupported".
Presets == {"best"}

presets ==
    [s \in Streams |-> [p \in Presets |->
        CASE s = "color" -> [enabled |-> TRUE, width |-> 640, fps |-> 60]
          [] s = "depth" -> [enabled |-> TRUE, width |-> 640, fps |-> 30]
          [] s = "infrared" -> [enabled |-> TRUE, width |-> 640, fps |-> 30]
          [] OTHER -> stream_request]]

\* The (width, fps) arguments enable_stream is called with.  640x60 on depth
\* and every 320-wide request match no catalog mode.
RequestArgs == { [width |-> 640, fps |-> 30],
                 [width |-> 640, fps |-> 60],
                 [width |-> 320, fps |-> 30] }

\* --------------------------------------------------------- mode negotiation

\* The streams of catalog mode m, as a set of stream names.
ModeStreams(m) ==
    {subdevice_modes[m].streams[k].stream : k \in 1..Len(subdevice_modes[m].streams)}

\* Whether catalog mode m satisfies every enabled request routed to subdevice i.
ModeSatisfies(reqs, i, m) ==
    /\ subdevice_modes[m].subdevice = i
    /\ \A s \in Streams :
          (reqs[s].enabled /\ stream_subdevices[s] = i) =>
              \E k \in 1..Len(subdevice_modes[m].streams) :
                  LET sm == subdevice_modes[m].streams[k]
                  IN  /\ sm.stream = s
                      /\ sm.width = reqs[s].width
                      /\ sm.fps = reqs[s].fps

\* camera_info.select_mode(requests, i): 0 is nullptr (no enabled request is
\* routed to subdevice i), -1 is the ConfigurationError thrown when requests are
\* routed to i and no catalog mode satisfies them, otherwise the first
\* satisfying mode in catalog order.
select_mode(reqs, i) ==
    IF ~\E s \in Streams : reqs[s].enabled /\ stream_subdevices[s] = i
    THEN 0
    ELSE IF \E m \in ModeIds : ModeSatisfies(reqs, i, m)
         THEN CHOOSE m \in ModeIds :
                 /\ ModeSatisfies(reqs, i, m)
                 /\ \A n \in ModeIds : ModeSatisfies(reqs, i, n) => m <= n
         ELSE -1

\* ------------------------------------------------------------ stream_buffer

Min(a, b) == IF a < b THEN a ELSE b

\* An image slot: `ptr` names the pixel storage the slot's vector owns (0: an
\* empty vector), `num` is the slot's frame number.
EmptyImage == [ptr |-> 0, num |-> 0]

\* The pixel storages of one buffer.
Ptrs == 1..3

\* stream_mode of a buffer whose set_mode has not run (value-initialised by
\* make_shared<stream_buffer>()).
NoStreamMode == [stream |-> "none", width |-> 0, fps |-> 0, intrinsics_index |-> 0]

\* No stream_buffer object.  `modes` counts the set_mode calls on the buffer
\* (2: two or more).
NullBuffer ==
    [alive |-> FALSE, moded |-> FALSE, mode |-> NoStreamMode,
     front |-> EmptyImage, middle |-> EmptyImage, back |-> EmptyImage,
     pixels |-> [p \in Ptrs |-> 0], updated |-> FALSE, mutex |-> "free",
     modes |-> 0]

\* std::make_shared<stream_buffer>(): a buffer on which set_mode has not run.
NewBuffer == [NullBuffer EXCEPT !.alive = TRUE]


\* First free storage for a slot whose vector is still empty.
Storage(img, fresh) == IF img.ptr = 0 THEN fresh ELSE img.ptr

\* stream_buffer::set_mode(mode): front.pixels.resize(..); front.number = 0;
\* back = middle = front (each slot owns a copy); updated = false.
BufferSetMode(b, sm) ==
    LET f == Storage(b.front, 1)
        m == Storage(b.middle, 2)
        k == Storage(b.back, 3)
    IN  [b EXCEPT !.moded = TRUE, !.mode = sm,
                  !.front = [ptr |-> f, num |-> 0],
                  !.middle = [ptr |-> m, num |-> 0],
                  !.back = [ptr |-> k, num |-> 0],
                  !.pixels = [p \in Ptrs |-> IF p \in {m, k} THEN b.pixels[f]
                                             ELSE b.pixels[p]],
                  !.updated = FALSE,
                  !.modes = Min(b.modes + 1, 2)]

\* An update_image that forgets to clear `updated`.
UpdateImageKeepsFlag(b) ==
    [b EXCEPT !.front = b.middle, !.middle = b.front, !.mutex = "free"]

\* An update_image that exchanges front with back instead of middle.
UpdateImageSwapsBack(b) ==
    [b EXCEPT !.front = b.back, !.back = b.front, !.updated = FALSE,
              !.mutex = "free"]

\* An update_image that returns without releasing the mutex.
UpdateImageKeepsMutex(b) ==
    [b EXCEPT !.front = b.middle, !.middle = b.front, !.updated = FALSE]

\* update_image, under the mutex: front.swap(middle); updated = false.
UpdateImageExchange(b) ==
    [b EXCEPT !.front = b.middle, !.middle = b.front, !.updated = FALSE,
              !.mutex = "free"]

\* An unpacker that writes into front's storage.
CallbackUnpackFront(b, n) == [b EXCEPT !.pixels[b.front.ptr] = n]

\* The callback's unpacker writes the decoded frame n into back's storage.
CallbackUnpack(b, n) == [b EXCEPT !.pixels[b.back.ptr] = n]

\* The callback stamps the decoded frame number on back.
CallbackNumber(b, n) == [b EXCEPT !.back.num = n]

\* The callback, under the mutex: back.swap(middle); updated = true.
CallbackExchange(b) ==
    [b EXCEPT !.back = b.middle, !.middle = b.back, !.updated = TRUE,
              !.mutex = "free"]

\* The frame a slot's storage holds (0: none yet).
Pix(b, img) == IF img.ptr = 0 THEN 0 ELSE b.pixels[img.ptr]

\* -------------------------------------------------------------------- state

VARIABLES
    requests,       \* rs_camera::requests, one stream_request per stream
    first_handle,   \* rs_camera::first_handle is non-null
    subdevices,     \* rs_camera::subdevices: "null", "open" (a handle whose
                    \* state is null) or "moded" (a handle whose set_mode ran)
    streams,        \* rs_camera::streams: the slot of stream s is non-null
    calib,          \* calib.intrinsics is non-empty
    is_capturing,   \* rs_camera::is_capturing
    buf,            \* the stream_buffer objects, one per stream at most
    cstate,         \* the capture_state objects: the catalog mode each holds (0: none)
    hw,             \* the transport, per subdevice: streaming, the registered
                    \* callback's captured state ("none", "null", "state"), and
                    \* the number of the last frame delivered
    cb,             \* the frame callback in progress, per subdevice
    wait,           \* where the consumer is inside wait_all_streams; `spin`
                    \* flips at every turn of while(true)
    crashed,        \* a callback dereferenced a null capture state
    lastOp,         \* the last session operation called, and
    lastResult,     \* whether it returned ("ok") or threw ("error")
    hist            \* history: what the claims need to remember

vars == << requests, first_handle, subdevices, streams, calib, is_capturing,
           buf, cstate, hw, cb, wait, crashed, lastOp, lastResult, hist >>

CbIdle == [pc |-> "idle", k |-> 0]

WaitIdle == [pc |-> "idle", k |-> 0, maxFps |-> 0, spin |-> FALSE]

HistInit ==
    [ configureCalled |-> FALSE,                 \* configure_enabled_streams was entered
      hwFailed |-> FALSE,                        \* the transport failed a call
      found |-> [i \in Subdevices |-> FALSE],    \* select_mode returned a mode for i
      calibCalls |-> 0,                          \* calls of retrieve_calibration
      calibOpen |-> TRUE,                        \* each call saw an open subdevice
      published |-> [s \in Streams |-> 0],       \* frames published to s's buffer
      latest |-> [s \in Streams |-> 0],          \* the last frame published to s's buffer
      returnedTrue |-> [s \in Streams |-> 0],    \* update_image calls on s that returned true
      polled |-> [s \in Streams |-> FALSE],      \* a whole update_image ran since the last publish
      straddled |-> FALSE,                       \* a publish fell inside the running update_image
      paced |-> [s \in Streams |-> TRUE],        \* so far, a poll between every two publishes
      waitTrue |-> [s \in Streams |-> FALSE],    \* this wait_all_streams saw update_image true on s
      waitPolls |-> [s \in Streams |-> 0],       \* update_image calls on s in this wait_all_streams
      waitFront |-> [s \in Streams |-> 0],       \* front's frame when this wait_all_streams began
      intrinsics |-> 0 ]                         \* what the last get_stream_intrinsics returned

\* The state after rs_camera's constructor.
Init ==
    /\ requests = [s \in Streams |-> stream_request]
    /\ first_handle = FALSE
    /\ subdevices = [i \in Subdevices |-> "null"]
    /\ streams = [s \in Streams |-> FALSE]
    /\ calib = FALSE
    /\ is_capturing = FALSE
    /\ buf = [s \in Streams |-> NullBuffer]
    /\ cstate = [i \in Subdevices |-> 0]
    /\ hw = [i \in Subdevices |-> [streaming |-> FALSE, callback |-> "none", frame |-> 0]]
    /\ cb = [i \in Subdevices |-> CbIdle]
    /\ wait = WaitIdle
    /\ crashed = FALSE
    /\ lastOp = "none"
    /\ lastResult = "ok"
    /\ hist = HistInit

\* The consumer thread is between session operations, on a session that has
\* not been destroyed.
ConsumerIdle == wait.pc = "idle" /\ ~crashed /\ lastOp # "destroyed"

\* The history fields that describe one wait_all_streams call, cleared.
ClearWait(h) ==
    [h EXCEPT !.waitTrue = [s \in Streams |-> FALSE],
              !.waitPolls = [s \in Streams |-> 0],
              !.waitFront = [s \in Streams |-> 0],
              !.intrinsics = 0]

\* ----------------------------------------------------- shared ownership

\* A stop_streaming that leaves the transport streaming.
StopStreamingSkipped(h, i) == h

\* handle.stop_streaming(): no further frame is delivered; the transport
\* drops the callback once it is not running.
StopStreaming(h, i) ==
    [h EXCEPT ![i].streaming = FALSE,
              ![i].callback = IF cb[i].pc = "idle" THEN "none" ELSE @]

\* A capture_state owned by its handle alone (what a callback capturing `this`
\* would leave).
StateOwnedByHandle(x, i) == x.subdevices[i] = "moded"

\* The capture_state of subdevice i is owned by its handle (state) and by the
\* callback the transport holds ([s] in start_streaming).
StateReferenced(x, i) == x.subdevices[i] = "moded" \/ x.hw[i].callback = "state"

\* A stream_buffer is owned by the session's `streams` slot and by the stream
\* list of its capture state.
BufferReferenced(x, s) ==
    \/ x.streams[s]
    \/ \E i \in Subdevices : /\ x.cstate[i] # 0
                             /\ StateReferenced(x, i)
                             /\ s \in ModeStreams(x.cstate[i])

\* shared_ptr: an object without an owner is destroyed, and its history ends.
Released(x) ==
    [x EXCEPT
       !.cstate = [i \in Subdevices |-> IF StateReferenced(x, i) THEN x.cstate[i] ELSE 0],
       !.buf = [s \in Streams |-> IF BufferReferenced(x, s) THEN x.buf[s] ELSE NullBuffer],
       !.hist = [x.hist EXCEPT
                   !.published = [s \in Streams |-> IF BufferReferenced(x, s) THEN @[s] ELSE 0],
                   !.latest = [s \in Streams |-> IF BufferReferenced(x, s) THEN @[s] ELSE 0],
                   !.returnedTrue = [s \in Streams |-> IF BufferReferenced(x, s) THEN @[s] ELSE 0],
                   !.polled = [s \in Streams |-> BufferReferenced(x, s) /\ @[s]],
                   !.paced = [s \in Streams |-> BufferReferenced(x, s) => @[s]]]]


\* ------------------------------------------------------- enable_stream*

\* A guard that refuses nothing (what the first guard must not be).
NeverRefused == FALSE

\* The first guard of enable_stream and enable_stream_preset.
ReconfigureRefused == first_handle

\* A request that keeps the arguments and stays disabled (what the stored
\* request must not be).
RequestedDisabled(a) == [enabled |-> FALSE, width |-> a.width, fps |-> a.fps]

\* requests[stream] = {true, width, height, format, fps}.
Requested(a) == [enabled |-> TRUE, width |-> a.width, fps |-> a.fps]

\* enable_stream(stream, width, height, format, fps).
EnableStream(s, a) ==
    /\ ConsumerIdle
    /\ lastOp' = "enable"
    /\ hist' = ClearWait(hist)
    /\ IF ReconfigureRefused \/ stream_subdevices[s] = -1
       THEN /\ lastResult' = "error"
            /\ UNCHANGED requests
       ELSE /\ lastResult' = "ok"
            /\ requests' = [requests EXCEPT ![s] = Requested(a)]
    /\ UNCHANGED << first_handle, subdevices, streams, calib, is_capturing,
                    buf, cstate, hw, cb, wait, crashed >>

\* enable_stream_preset(stream, preset).
EnableStreamPreset(s, p) ==
    /\ ConsumerIdle
    /\ lastOp' = "enable"
    /\ hist' = ClearWait(hist)
    /\ IF ReconfigureRefused \/ ~presets[s][p].enabled
       THEN /\ lastResult' = "error"
            /\ UNCHANGED requests
       ELSE /\ lastResult' = "ok"
            /\ requests' = [requests EXCEPT ![s] = presets[s][p]]
    /\ UNCHANGED << first_handle, subdevices, streams, calib, is_capturing,
                    buf, cstate, hw, cb, wait, crashed >>

\* ------------------------------------------- configure_enabled_streams

\* What the transport may refuse during one call: claim_subdevice(sub) or the
\* handle's set_mode on subdevice sub.
Faults ==
    {[kind |-> "none", sub |-> 0]} \cup
    {[kind |-> k, sub |-> i] : k \in {"claim", "set_mode"}, i \in Subdevices}

\* streams[stream_mode.stream] = stream, for the requested streams of mode m.
PublishBuffers(reqs, m) == {s \in ModeStreams(m) : reqs[s].enabled}

\* The stream_mode of stream s in catalog mode m.
StreamModeOf(m, s) ==
    LET k == CHOOSE j \in 1..Len(subdevice_modes[m].streams) :
                 subdevice_modes[m].streams[j].stream = s
    IN  subdevice_modes[m].streams[k]

\* subdevices[i].reset(new subdevice_handle(device, i)), first_handle, and the
\* buffers of mode m: one new stream_buffer per stream of the mode, stored in
\* `streams` for the requested ones.
Opened(st, i, m) ==
    [st EXCEPT
       !.found[i] = TRUE,
       !.subdevices[i] = "open",
       !.first_handle = TRUE,
       !.buf = [s \in Streams |->
                  IF s \in ModeStreams(m) THEN NewBuffer ELSE st.buf[s]],
       !.streams = [s \in Streams |->
                  IF s \in PublishBuffers(requests, m) THEN TRUE ELSE st.streams[s]]]

\* subdevices[i]->set_mode(*mode, stream_list): the handle's set_mode throws
\* under the fault, before the capture state exists; otherwise the state is
\* created and every buffer of the list gets its stream mode.
Programmed(opened, i, m, fault) ==
    IF fault = [kind |-> "set_mode", sub |-> i]
    THEN [opened EXCEPT !.err = TRUE, !.hwFailed = TRUE]
    ELSE [opened EXCEPT
            !.subdevices[i] = "moded",
            !.cstate[i] = m,
            !.buf = [s \in Streams |->
                       IF s \in ModeStreams(m)
                       THEN BufferSetMode(opened.buf[s], StreamModeOf(m, s))
                       ELSE opened.buf[s]]]

\* The body of the subdevice loop for subdevice i, given select_mode's answer m.
Negotiated(st, i, m, fault) ==
    IF m = -1 THEN [st EXCEPT !.err = TRUE]
    ELSE IF m = 0 THEN st
    ELSE IF fault = [kind |-> "claim", sub |-> i]
    THEN [st EXCEPT !.err = TRUE, !.hwFailed = TRUE, !.found[i] = TRUE]
    ELSE Programmed(Opened(st, i, m), i, m, fault)

\* One iteration of the subdevice loop.  st.err says that an exception has
\* left the function.
ConfigureSubdevice(st, i, fault) == Negotiated(st, i, select_mode(requests, i), fault)

RECURSIVE ConfigureLoop(_, _, _)
\* for(int i = 0; i < subdevices.size(); ++i), left by the first exception.
ConfigureLoop(st, i, fault) ==
    IF i > max_subdevice \/ st.err THEN st
    ELSE ConfigureLoop(ConfigureSubdevice(st, i, fault), i + 1, fault)

\* for(auto & s : subdevices) s.reset(); for(auto & s : streams) s.reset();
ResetSession ==
    [err |-> FALSE, hwFailed |-> FALSE,
     subdevices |-> [i \in Subdevices |-> "null"],
     streams |-> [s \in Streams |-> FALSE],
     first_handle |-> first_handle,
     buf |-> buf, cstate |-> cstate,
     found |-> hist.found]

\* Whether the subdevice loop is skipped.
AlreadyConfigured == first_handle

\* The guard of the calibration fetch, given the session after the loop.
CalibrationWanted(st) == ~calib /\ st.first_handle

\* The session when configure_enabled_streams() is left, st being the session
\* after the loop and `fetch` whether retrieve_calibration() is called.
Left(st, fetch) ==
    Released(
    [ err |-> st.err,
      subdevices |-> st.subdevices, streams |-> st.streams,
      first_handle |-> st.first_handle, buf |-> st.buf, cstate |-> st.cstate,
      calib |-> (calib \/ fetch),
      \* ~subdevice_handle() stops the streaming of every handle that is reset
      hw |-> [i \in Subdevices |->
                IF subdevices[i] # "null" THEN StopStreaming(hw, i)[i] ELSE hw[i]],
      hist |-> [ClearWait(hist) EXCEPT
                  !.configureCalled = TRUE,
                  !.hwFailed = hist.hwFailed \/ st.hwFailed,
                  !.found = st.found,
                  !.calibCalls = IF fetch THEN Min(hist.calibCalls + 1, 2)
                                 ELSE hist.calibCalls,
                  !.calibOpen = hist.calibOpen /\
                      (fetch => \E i \in Subdevices : st.subdevices[i] # "null")] ])

\* The calibration fetch after the loop; an exception skips it.
Calibrated(st) == Left(st, ~st.err /\ CalibrationWanted(st))

\* The session after configure_enabled_streams() under `fault`.
Configured(fault) ==
    IF AlreadyConfigured THEN Calibrated(ResetSession)
    ELSE Calibrated(ConfigureLoop([ResetSession EXCEPT
                                      !.found = [i \in Subdevices |-> FALSE]],
                                  0, fault))

\* configure_enabled_streams().
ConfigureEnabledStreams(fault) ==
    /\ ConsumerIdle
    /\ \E c \in {Configured(fault)} :
           /\ subdevices' = c.subdevices
           /\ streams' = c.streams
           /\ first_handle' = c.first_handle
           /\ buf' = c.buf
           /\ cstate' = c.cstate
           /\ calib' = c.calib
           /\ hw' = c.hw
           /\ hist' = c.hist
           /\ lastResult' = IF c.err THEN "error" ELSE "ok"
    /\ lastOp' = IF lastOp \in {"configure", "reconfigure"} THEN "reconfigure"
                 ELSE "configure"
    /\ UNCHANGED << requests, is_capturing, cb, wait, crashed >>

\* --------------------------------------------------- start / stop capture

\* subdevice_handle::start_streaming() on subdevice i: the callback captures
\* the handle's state, which is null when set_mode has not completed.
StartStreaming(h, i, subs) ==
    [h EXCEPT ![i].streaming = TRUE,
              ![i].callback = IF subs[i] = "moded" THEN "state" ELSE "null"]

RECURSIVE StartLoop(_, _, _, _)
\* for(auto & subdevice : subdevices) if (subdevice) subdevice->start_streaming();
\* `refuse` is the transport refusing to stream a handle no mode was programmed
\* on; r.err says that an exception has left the loop.
StartLoop(r, i, subs, refuse) ==
    IF i > max_subdevice \/ r.err THEN r
    ELSE IF subs[i] = "null" THEN StartLoop(r, i + 1, subs, refuse)
    ELSE IF subs[i] = "open" /\ refuse THEN [r EXCEPT !.err = TRUE]
    ELSE StartLoop([r EXCEPT !.hw = StartStreaming(r.hw, i, subs)], i + 1, subs, refuse)

\* start_capture().
StartCapture(fault, refuse) ==
    /\ ConsumerIdle
    /\ lastOp' = "start"
    /\ UNCHANGED << requests, cb, wait, crashed >>
    /\ IF ~first_handle
       THEN \E c \in {Configured(fault)} :
                /\ subdevices' = c.subdevices
                /\ streams' = c.streams
                /\ first_handle' = c.first_handle
                /\ buf' = c.buf
                /\ cstate' = c.cstate
                /\ calib' = c.calib
                /\ IF c.err
                   THEN /\ hw' = c.hw
                        /\ hist' = c.hist
                        /\ lastResult' = "error"
                        /\ UNCHANGED is_capturing
                   ELSE \E r \in {StartLoop([hw |-> c.hw, err |-> FALSE], 0,
                                            c.subdevices, refuse)} :
                            /\ hw' = r.hw
                            /\ hist' = [c.hist EXCEPT !.hwFailed = @ \/ r.err]
                            /\ lastResult' = IF r.err THEN "error" ELSE "ok"
                            /\ is_capturing' = (is_capturing \/ ~r.err)
       ELSE /\ UNCHANGED << subdevices, streams, first_handle, buf, cstate, calib >>
            /\ \E r \in {StartLoop([hw |-> hw, err |-> FALSE], 0, subdevices, refuse)} :
                   /\ hw' = r.hw
                   /\ hist' = [ClearWait(hist) EXCEPT !.hwFailed = @ \/ r.err]
                   /\ lastResult' = IF r.err THEN "error" ELSE "ok"
                   /\ is_capturing' = (is_capturing \/ ~r.err)

\* stop_capture(): stop_streaming() on every open subdevice.
StopCapture ==
    /\ ConsumerIdle
    /\ lastOp' = "stop"
    /\ lastResult' = "ok"
    /\ is_capturing' = FALSE
    /\ \E x \in {Released([subdevices |-> subdevices, streams |-> streams,
                           cstate |-> cstate, buf |-> buf, hist |-> ClearWait(hist),
                           hw |-> [i \in Subdevices |->
                                     IF subdevices[i] # "null"
                                     THEN StopStreaming(hw, i)[i] ELSE hw[i]]])} :
           /\ hw' = x.hw
           /\ cstate' = x.cstate
           /\ buf' = x.buf
           /\ hist' = x.hist
    /\ UNCHANGED << requests, first_handle, subdevices, streams, calib,
                    cb, wait, crashed >>

\* ---------------------------------------------------------- ~rs_camera

\* ~rs_camera(): subdevices.clear() destroys every handle, whose destructor
\* stops its streaming; the members (streams among them) are destroyed after.
Destroy ==
    /\ ConsumerIdle
    /\ lastOp' = "destroyed"
    /\ lastResult' = "ok"
    /\ \E x \in {Released([subdevices |-> [i \in Subdevices |-> "null"],
                           streams |-> [s \in Streams |-> FALSE],
                           cstate |-> cstate, buf |-> buf, hist |-> ClearWait(hist),
                           hw |-> [i \in Subdevices |->
                                     IF subdevices[i] # "null"
                                     THEN StopStreaming(hw, i)[i] ELSE hw[i]]])} :
           /\ subdevices' = x.subdevices
           /\ streams' = x.streams
           /\ hw' = x.hw
           /\ cstate' = x.cstate
           /\ buf' = x.buf
           /\ hist' = x.hist
    /\ UNCHANGED << requests, first_handle, calib, is_capturing, cb, wait, crashed >>

\* ------------------------------------------------- get_stream_intrinsics

\* What calib.intrinsics[i] does on an empty calibration: the process dies, or
\* the call returns whatever lies past the empty vector (-1 here).
EmptyIndexed == {"crash", "garbage"}

\* get_stream_intrinsics(s): throws when the slot of s is null, otherwise
\* returns calib.intrinsics[streams[s]->get_mode().intrinsics_index]; with an
\* empty calibration the outcome is o.
GetStreamIntrinsics(s, o) ==
    /\ ConsumerIdle
    /\ lastOp' = "intrinsics"
    /\ lastResult' = IF streams[s] THEN "ok" ELSE "error"
    /\ hist' = [ClearWait(hist) EXCEPT
                  !.intrinsics = IF ~streams[s] THEN 0
                                 ELSE IF calib THEN buf[s].mode.intrinsics_index
                                 ELSE -1]
    /\ crashed' = (streams[s] /\ ~calib /\ o = "crash")
    /\ UNCHANGED << requests, first_handle, subdevices, streams, calib,
                    is_capturing, buf, cstate, hw, cb, wait >>

\* ------------------------------------------------------ wait_all_streams

\* The smaller of two frame rates (what std::max must not be).
Smaller(a, b) == IF a < b THEN a ELSE b

\* The larger of two frame rates (std::max).
Larger(a, b) == IF a < b THEN b ELSE a

RECURSIVE MaxFpsFrom(_, _)
\* for(auto & stream : streams) maxFps = stream ? std::max(maxFps, fps) : maxFps;
MaxFpsFrom(k, acc) ==
    IF k > Len(StreamOrder) THEN acc
    ELSE MaxFpsFrom(k + 1, IF streams[StreamOrder[k]]
                           THEN Larger(acc, buf[StreamOrder[k]].mode.fps)
                           ELSE acc)

MaxFps == MaxFpsFrom(1, 0)

\* The next index after k whose stream slot is non-null, 0 if there is none.
NextBuffered(k) ==
    LET later == {j \in (k + 1)..Len(StreamOrder) : streams[StreamOrder[j]]}
    IN  IF later = {} THEN 0
        ELSE CHOOSE j \in later : \A l \in later : j <= l

\* The consumer goes on to the next buffered stream, or returns.
Advance(w) ==
    LET j == NextBuffered(w.k)
    IN  IF j = 0 THEN WaitIdle ELSE [w EXCEPT !.pc = "read", !.k = j, !.spin = FALSE]

\* The stream the consumer is polling.
WaitStream == StreamOrder[wait.k]

\* if(stream->get_mode().fps == maxFps): the stream is waited for.
IsFastest(s) == buf[s].mode.fps = wait.maxFps

\* wait_all_streams() is called: returns at once when not capturing or when no
\* stream is buffered, otherwise starts on the first buffered stream.
WaitAllStreams ==
    /\ ConsumerIdle
    /\ lastOp' = "wait"
    /\ lastResult' = "ok"
    /\ IF ~is_capturing \/ NextBuffered(0) = 0
       THEN /\ wait' = WaitIdle
            /\ hist' = ClearWait(hist)
       ELSE /\ wait' = [pc |-> "read", k |-> NextBuffered(0), maxFps |-> MaxFps,
                         spin |-> FALSE]
            /\ hist' = [ClearWait(hist) EXCEPT
                          !.waitFront = [s \in Streams |-> Pix(buf[s], buf[s].front)]]
    /\ UNCHANGED << requests, first_handle, subdevices, streams, calib,
                    is_capturing, buf, cstate, hw, cb, crashed >>

\* update_image(): if(!updated) return false; read without the mutex.
UpdateImageRead ==
    /\ wait.pc = "read" /\ ~crashed
    /\ LET s == WaitStream
       IN  IF buf[s].updated
           THEN /\ wait' = [wait EXCEPT !.pc = "lock", !.spin = FALSE]
                /\ UNCHANGED hist
           ELSE /\ wait' = IF IsFastest(s) THEN [wait EXCEPT !.spin = ~@]
                            ELSE Advance(wait)
                /\ hist' = [hist EXCEPT !.polled[s] = TRUE,
                                        !.waitPolls[s] = Min(@ + 1, 2)]
    /\ UNCHANGED << requests, first_handle, subdevices, streams, calib,
                    is_capturing, buf, cstate, hw, cb, crashed, lastOp, lastResult >>

\* update_image(): std::lock_guard<std::mutex> guard(mutex).
UpdateImageLock ==
    /\ wait.pc = "lock" /\ ~crashed
    /\ buf[WaitStream].mutex = "free"
    /\ buf' = [buf EXCEPT ![WaitStream].mutex = "consumer"]
    /\ wait' = [wait EXCEPT !.pc = "swap"]
    /\ UNCHANGED << requests, first_handle, subdevices, streams, calib,
                    is_capturing, cstate, hw, cb, crashed, lastOp, lastResult, hist >>

\* update_image(): front.swap(middle); updated = false; return true.
UpdateImageSwap ==
    /\ wait.pc = "swap" /\ ~crashed
    /\ LET s == WaitStream
       IN  /\ buf' = [buf EXCEPT ![s] = UpdateImageExchange(buf[s])]
           /\ hist' = [hist EXCEPT !.returnedTrue[s] = Min(@ + 1, MaxFrames + 1),
                                   !.polled[s] = ~hist.straddled,
                                   !.straddled = FALSE,
                                   !.waitTrue[s] = TRUE,
                                   !.waitPolls[s] = Min(@ + 1, 2)]
    /\ wait' = Advance(wait)
    /\ UNCHANGED << requests, first_handle, subdevices, streams, calib,
                    is_capturing, cstate, hw, cb, crashed, lastOp, lastResult >>

\* ------------------------------------------------------- frame callback

\* The stream_buffer list of capture state i, as stream names in list order.
StateStreams(i) ==
    [k \in 1..Len(subdevice_modes[cstate[i]].streams) |->
        subdevice_modes[cstate[i]].streams[k].stream]

\* What dereferencing a null captured state does: the process dies, or the
\* callback returns having written nothing the session sees.
NullDereference == {"crash", "lost"}

\* The transport invokes the callback registered on subdevice i with frame n:
\* a null captured state is dereferenced, with outcome o; otherwise the frame
\* is unpacked into the back slot of every stream of the state.
Deliver(i, n, o) ==
    /\ ~crashed
    /\ hw[i].streaming /\ hw[i].callback # "none"
    /\ cb[i].pc = "idle"
    /\ hw' = [hw EXCEPT ![i].frame = n]
    /\ IF hw[i].callback = "null"
       THEN /\ crashed' = (o = "crash")
            /\ UNCHANGED << buf, cb >>
       ELSE /\ UNCHANGED crashed
            /\ buf' = [s \in Streams |->
                         IF s \in ModeStreams(cstate[i]) THEN CallbackUnpack(buf[s], n)
                         ELSE buf[s]]
            /\ cb' = [cb EXCEPT ![i] =
                         IF subdevice_modes[cstate[i]].decoder
                         THEN [pc |-> "number", k |-> 0]
                         ELSE [pc |-> "lock", k |-> 1]]
    /\ UNCHANGED << requests, first_handle, subdevices, streams, calib,
                    is_capturing, cstate, wait, lastOp, lastResult, hist >>

RECURSIVE FramesUpTo(_)
\* Frames delivered on subdevices 0..i.
FramesUpTo(i) == IF i < 0 THEN 0 ELSE hw[i].frame + FramesUpTo(i - 1)

\* Frames the transport has delivered so far, on all subdevices.
FramesDelivered == FramesUpTo(max_subdevice)

\* The outcomes of a frame delivered on subdevice i now.
DereferencedNow(i) == IF hw[i].callback = "null" THEN NullDereference ELSE {"lost"}

\* A frame arrives on subdevice i.
FrameArrives(i) ==
    /\ FramesDelivered < MaxFrames
    /\ \E o \in DereferencedNow(i) : Deliver(i, hw[i].frame + 1, o)

\* if(s->mode.frame_number_decoder) ... stream->back.number = frame_number.
CallbackStamp(i) ==
    /\ ~crashed
    /\ cb[i].pc = "number"
    /\ buf' = [s \in Streams |->
                 IF s \in ModeStreams(cstate[i]) THEN CallbackNumber(buf[s], hw[i].frame)
                 ELSE buf[s]]
    /\ cb' = [cb EXCEPT ![i] = [pc |-> "lock", k |-> 1]]
    /\ UNCHANGED << requests, first_handle, subdevices, streams, calib, is_capturing,
                    cstate, hw, wait, crashed, lastOp, lastResult, hist >>

\* std::lock_guard<std::mutex> guard(stream->mutex), for the k-th stream.
CallbackLock(i) ==
    /\ ~crashed
    /\ cb[i].pc = "lock"
    /\ LET s == StateStreams(i)[cb[i].k]
       IN  /\ buf[s].mutex = "free"
           /\ buf' = [buf EXCEPT ![s].mutex = "producer"]
    /\ cb' = [cb EXCEPT ![i].pc = "swap"]
    /\ UNCHANGED << requests, first_handle, subdevices, streams, calib, is_capturing,
                    cstate, hw, wait, crashed, lastOp, lastResult, hist >>

\* The history after the callback published a frame to stream s.
Published(h, s, n) ==
    [h EXCEPT !.published[s] = Min(@ + 1, MaxFrames),
              !.latest[s] = n,
              !.paced[s] = @ /\ (h.published[s] = 0 \/ h.polled[s]),
              !.polled[s] = FALSE,
              !.straddled = @ \/ (wait.pc = "lock" /\ StreamOrder[wait.k] = s)]

\* stream->back.swap(stream->middle); stream->updated = true; then the next
\* stream of the state, or the callback returns.
CallbackSwap(i) ==
    /\ ~crashed
    /\ cb[i].pc = "swap"
    /\ \E s \in {StateStreams(i)[cb[i].k]} :
         IF cb[i].k < Len(StateStreams(i))
         THEN /\ buf' = [buf EXCEPT ![s] = CallbackExchange(buf[s])]
              /\ hist' = Published(hist, s, hw[i].frame)
              /\ cb' = [cb EXCEPT ![i] = [pc |-> "lock", k |-> cb[i].k + 1]]
              /\ UNCHANGED << hw, cstate >>
         ELSE /\ cb' = [cb EXCEPT ![i] = CbIdle]
              /\ \E x \in {Released(
                            [subdevices |-> subdevices, streams |-> streams,
                             cstate |-> cstate,
                             buf |-> [buf EXCEPT ![s] = CallbackExchange(buf[s])],
                             hist |-> Published(hist, s, hw[i].frame),
                             \* a callback that outlived stop_streaming() is dropped
                             hw |-> [hw EXCEPT ![i].callback =
                                        IF hw[i].streaming THEN @ ELSE "none"]])} :
                     /\ hw' = x.hw
                     /\ cstate' = x.cstate
                     /\ buf' = x.buf
                     /\ hist' = x.hist
    /\ UNCHANGED << requests, first_handle, subdevices, streams, calib, is_capturing,
                    wait, crashed, lastOp, lastResult >>

\* ------------------------------------------------------- specification

\* The transport failures that can show in a configure_enabled_streams call
\* made now: the transport is called only when the subdevice loop runs.
FaultsNow == IF AlreadyConfigured THEN {[kind |-> "none", sub |-> 0]} ELSE Faults

\* Whether the transport can refuse a start_streaming call made now: only a
\* handle without a programmed mode is refused.
RefusalsNow ==
    IF \E i \in Subdevices : subdevices[i] = "open" THEN BOOLEAN ELSE {FALSE}

\* The outcomes of get_stream_intrinsics(s) called now.
IndexedNow(s) == IF streams[s] /\ ~calib THEN EmptyIndexed ELSE {"garbage"}

Next ==
    \/ \E s \in Streams, a \in RequestArgs : EnableStream(s, a)
    \/ \E s \in Streams, p \in Presets : EnableStreamPreset(s, p)
    \/ \E f \in FaultsNow : ConfigureEnabledStreams(f)
    \/ \E f \in FaultsNow, r \in RefusalsNow : StartCapture(f, r)
    \/ StopCapture
    \/ Destroy
    \/ \E s \in Streams : \E o \in IndexedNow(s) : GetStreamIntrinsics(s, o)
    \/ WaitAllStreams
    \/ UpdateImageRead
    \/ UpdateImageLock
    \/ UpdateImageSwap
    \/ \E i \in Subdevices : FrameArrives(i)
    \/ \E i \in Subdevices : CallbackStamp(i)
    \/ \E i \in Subdevices : CallbackLock(i)
    \/ \E i \in Subdevices : CallbackSwap(i)

Spec == Init /\ [][Next]_vars


\* ------------------------------------------------------------ fairness

\* A step of the frame callback of subdevice i, or a frame arriving on it.
Producer(i) ==
    FrameArrives(i) \/ CallbackStamp(i) \/ CallbackLock(i) \/ CallbackSwap(i)

\* The hardware keeps delivering frames while the model lets it, both threads
\* keep running, and the consumer is not starved of a mutex that is released
\* again and again.
LiveSpec ==
    /\ Init /\ [][Next]_vars
    /\ \A i \in Subdevices : WF_vars(Producer(i))
    /\ WF_vars(UpdateImageRead)
    /\ SF_vars(UpdateImageLock)
    /\ WF_vars(UpdateImageSwap)

\* C7: a wait_all_streams call made while capturing eventually returns, in
\* every session whose transport calls have all succeeded, as long as the
\* transport still has frames to deliver.
C7_WaitReturns ==
    (wait.pc # "idle" /\ ~hist.hwFailed)
        ~> (wait.pc = "idle" \/ FramesDelivered >= MaxFrames)

\* =============================================================== claims

\* The subdevices that hold a handle.
OpenSubdevices == {i \in Subdevices : subdevices[i] # "null"}

\* The step is a direct call of configure_enabled_streams().
ConfigureStep == \E f \in Faults : ConfigureEnabledStreams(f)

\* C1: configure_enabled_streams is idempotent: a second call right after a
\* successful one (no other session operation in between) leaves the same open
\* subdevices and the same populated buffer slots as the first call did.
C1_ConfigureIdempotent ==
    [][(lastOp = "configure" /\ lastResult = "ok" /\ ConfigureStep)
          => (OpenSubdevices' = OpenSubdevices /\ streams' = streams)]_vars

\* C2: a configure_enabled_streams call that fails leaves the session as it
\* was: it leaves no subdevice open and no buffer slot populated that was not
\* before, does not set first_handle, and leaves no subdevice opened without a
\* programmed mode.
C2_FailedConfigureRestores ==
    [][(ConfigureStep /\ lastResult' = "error")
          => /\ OpenSubdevices' \subseteq OpenSubdevices
             /\ \A s \in Streams : streams'[s] => streams[s]
             /\ first_handle' = first_handle
             /\ \A i \in Subdevices : subdevices'[i] # "open"]_vars

\* The step is a call of enable_stream or enable_stream_preset.
EnableStep ==
    \/ \E s \in Streams, a \in RequestArgs : EnableStream(s, a)
    \/ \E s \in Streams, p \in Presets : EnableStreamPreset(s, p)

\* C3: once configure_enabled_streams has been called (directly or through
\* start_capture), every enable_stream* call fails and the request array is
\* never modified again, whatever was requested when it was called.
C3_EnableAfterConfigureFails ==
    [][hist.configureCalled
          => (requests' = requests /\ (EnableStep => lastResult' = "error"))]_vars

\* The stream's buffer has a mode with a frame_number_decoder.
HasDecoder(s) ==
    \E m \in ModeIds : /\ subdevice_modes[m].decoder
                       /\ s \in ModeStreams(m)
                       /\ buf[s].mode = StreamModeOf(m, s)

\* C4: for every stream_buffer, update_image has returned true at most as often
\* as the callback has published a frame; and while the consumer has polled
\* between every two published frames, every published frame has been returned
\* exactly once or is the one still flagged `updated`.
C4_TrueOncePerFrame ==
    \A s \in Streams :
        /\ hist.returnedTrue[s] <= hist.published[s]
        /\ hist.paced[s] =>
              hist.returnedTrue[s] + (IF buf[s].updated THEN 1 ELSE 0)
                  = hist.published[s]

\* C4 witness: a paced consumer has had update_image return true twice on one
\* buffer.
C4_Witness ==
    \E s \in Streams : hist.paced[s] /\ hist.returnedTrue[s] = 2

\* C5: when update_image returns true, front holds the frame that was published
\* last before the front/middle exchange of that call.
C5_FrontIsLatest ==
    [][UpdateImageSwap
          => Pix(buf'[WaitStream], buf'[WaitStream].front) = hist.latest[WaitStream]]_vars

\* C5 witness: update_image has returned true once, two frames having been
\* published before its exchange, and front holds the second.
C5_Witness ==
    \E s \in Streams :
        /\ hist.returnedTrue[s] = 1 /\ hist.published[s] = 2
        /\ ~buf[s].updated /\ wait.pc = "idle"
        /\ Pix(buf[s], buf[s].front) = 2

\* The step belongs to the frame callback (the producer thread): only its
\* steps deliver a frame or move a callback.
ProducerStep == cb' # cb \/ \E i \in Subdevices : hw'[i].frame # hw[i].frame

\* The step belongs to update_image (the consumer thread): only its steps move
\* a wait_all_streams call in progress.
ConsumerStep == wait.pc # "idle" /\ wait' # wait

\* front, middle and back of every buffer whose set_mode ran own three
\* different pixel storages.
SlotsDistinct ==
    \A s \in Streams :
        buf[s].moded =>
            Cardinality({buf[s].front.ptr, buf[s].middle.ptr, buf[s].back.ptr}) = 3

\* front is a whole image: its frame number is the one of its pixels, whenever
\* the mode decodes frame numbers.
FrontComplete ==
    \A s \in Streams :
        (buf[s].moded /\ HasDecoder(s)) =>
            buf[s].front.num = Pix(buf[s], buf[s].front)

\* The producer leaves front alone and writes pixels into back's storage only.
ProducerKeepsFront ==
    \A s \in Streams :
        (buf[s].moded /\ buf'[s].alive) =>
            /\ buf'[s].front = buf[s].front
            /\ \A p \in Ptrs : p # buf[s].back.ptr => buf'[s].pixels[p] = buf[s].pixels[p]
            /\ {buf'[s].middle, buf'[s].back} \in
                   { {buf[s].middle, buf[s].back},
                     {buf[s].middle, [buf[s].back EXCEPT !.num = hw[stream_subdevices[s]].frame]} }

\* The consumer leaves back alone and writes no pixels.
ConsumerKeepsBack ==
    \A s \in Streams :
        buf[s].moded =>
            /\ buf'[s].back = buf[s].back
            /\ buf'[s].pixels = buf[s].pixels
            /\ {buf'[s].front, buf'[s].middle} = {buf[s].front, buf[s].middle}

\* C6: the three slots of a buffer are always distinct images, the producer
\* writes only into back and never touches front, the consumer only exchanges
\* front and middle and never touches back, and front is never a partially
\* written image.
C6_SlotPartition ==
    [][/\ SlotsDistinct' /\ FrontComplete'
       /\ ProducerStep => ProducerKeepsFront
       /\ ConsumerStep => ConsumerKeepsBack]_vars

\* C6 witness: the callback is between writing the pixels of a frame into back
\* and stamping its number, while the consumer holds an earlier whole frame in
\* front.
C6_Witness ==
    \E s \in Streams :
        /\ buf[s].moded /\ HasDecoder(s)
        /\ cb[stream_subdevices[s]].pc = "number"
        /\ Pix(buf[s], buf[s].back) # buf[s].back.num
        /\ buf[s].front.num = 1 /\ Pix(buf[s], buf[s].front) = 1

\* The buffered streams: those whose slot in `streams` is populated.
Buffered == {s \in Streams : streams[s]}

\* C8: when wait_all_streams has returned from a call made while capturing,
\* update_image has returned true during the call on every buffered stream
\* whose fps is the maximum over the buffered streams, and its front has
\* advanced; every other buffered stream has been polled exactly once.
C8_FastestAdvanced ==
    (lastOp = "wait" /\ wait.pc = "idle" /\ is_capturing) =>
        \A s \in Buffered :
            IF \A r \in Buffered : buf[r].mode.fps <= buf[s].mode.fps
            THEN /\ hist.waitTrue[s]
                 /\ Pix(buf[s], buf[s].front) > hist.waitFront[s]
            ELSE hist.waitPolls[s] = 1

\* C8 witness: wait_all_streams has returned with color buffered at 60 fps and
\* depth at 30 fps, color having advanced.
C8_Witness ==
    /\ lastOp = "wait" /\ wait.pc = "idle" /\ is_capturing
    /\ {"color", "depth"} \subseteq Buffered
    /\ buf["color"].mode.fps = 60 /\ buf["depth"].mode.fps = 30
    /\ hist.waitTrue["color"]
    /\ hist.waitPolls["depth"] = 1

\* C9: whenever no operation is in progress, the slot of stream s is populated
\* exactly if s is requested and select_mode found a mode for the subdevice
\* serving s (in sessions whose transport calls have all succeeded).
C9_PopulatedIffFound ==
    (wait.pc = "idle" /\ ~hist.hwFailed) =>
        \A s \in Streams :
            streams[s] <=> /\ requests[s].enabled
                           /\ stream_subdevices[s] \in Subdevices
                           /\ hist.found[stream_subdevices[s]]

\* C10: retrieve_calibration is called at most once, and only with a subdevice
\* open (in sessions whose transport calls have all succeeded).
C10_CalibrationOnceWhenOpen ==
    ~hist.hwFailed => (hist.calibCalls <= 1 /\ hist.calibOpen)

\* The step is a call of get_stream_intrinsics(s).
IntrinsicsStep(s) == \E o \in EmptyIndexed : GetStreamIntrinsics(s, o)

\* C11: get_stream_intrinsics(s) fails exactly when s has no buffer; whenever s
\* has a buffer the calibration has been fetched, and the call returns the
\* calibration entry at the intrinsics index of the buffer's mode (in sessions
\* whose transport calls have all succeeded).
C11_IntrinsicsOfFetchedCalibration ==
    [][\A s \in Streams :
          (IntrinsicsStep(s) /\ ~hist.hwFailed) =>
              /\ lastResult' = "error" <=> ~streams[s]
              /\ streams[s] => /\ calib
                               /\ ~crashed'
                               /\ hist'.intrinsics = buf[s].mode.intrinsics_index]_vars

\* C12: whenever a subdevice is open first_handle is set; once set it is never
\* cleared, and from then on the request array never changes and no
\* enable_stream* call is accepted: the last such call, if any was made since,
\* was rejected.
C12_FirstHandleSticks ==
    [][/\ OpenSubdevices' # {} => first_handle'
       /\ first_handle => (first_handle' /\ requests' = requests)
       /\ first_handle' => ~(lastOp' = "enable" /\ lastResult' = "ok")]_vars

\* C12 witness: an enable_stream* call has just been rejected in a session
\* that holds requests and whose subdevices have all been closed again.
C12_Witness ==
    /\ first_handle /\ OpenSubdevices = {}
    /\ lastOp = "enable" /\ lastResult = "error"
    /\ \E s \in Streams : requests[s].enabled

\* C13: every update_image that returns true leaves in front a frame strictly
\* newer than the one front held before (the one left by the previous such
\* call): pixels, and frame number where the mode decodes one.
C13_FrontNeverGoesBack ==
    [][UpdateImageSwap =>
          /\ Pix(buf'[WaitStream], buf'[WaitStream].front)
                 > Pix(buf[WaitStream], buf[WaitStream].front)
          /\ HasDecoder(WaitStream) =>
                 buf'[WaitStream].front.num > buf[WaitStream].front.num]_vars

\* C13 witness: update_image has returned true twice on a buffer; front holds
\* the second frame and the first has gone back to middle.
C13_Witness ==
    \E s \in Streams :
        /\ hist.returnedTrue[s] = 2 /\ wait.pc = "idle"
        /\ Pix(buf[s], buf[s].front) = 2
        /\ Pix(buf[s], buf[s].middle) = 1

\* C14: before any configure_enabled_streams or start_capture, an accepted
\* enable_stream* call stores its enabled request in the slot it names and
\* leaves every other slot alone, a call rejected as unsupported changes no
\* slot, and a slot never named by an accepted call holds the disabled request
\* of the constructor.
C14_RequestsReflectLastCall ==
    [][~hist.configureCalled =>
          /\ \A s \in Streams, a \in RequestArgs :
                EnableStream(s, a) =>
                    IF stream_subdevices[s] = -1
                    THEN lastResult' = "error" /\ requests' = requests
                    ELSE /\ lastResult' = "ok"
                         /\ requests'[s] = [enabled |-> TRUE, width |-> a.width,
                                            fps |-> a.fps]
                         /\ \A r \in Streams \ {s} : requests'[r] = requests[r]
          /\ \A s \in Streams, p \in Presets :
                EnableStreamPreset(s, p) =>
                    IF ~presets[s][p].enabled
                    THEN lastResult' = "error" /\ requests' = requests
                    ELSE /\ lastResult' = "ok"
                         /\ requests'[s] = presets[s][p]
                         /\ \A r \in Streams \ {s} : requests'[r] = requests[r]
          /\ ~EnableStep => requests' = requests
          /\ \A s \in Streams :
                requests'[s] = stream_request \/ requests'[s].enabled]_vars

\* C14 witness: before any configure, color holds the request of an accepted
\* call, depth was never named, and the last call was rejected as unsupported.
C14_Witness ==
    /\ ~hist.configureCalled
    /\ lastOp = "enable" /\ lastResult = "error"
    /\ requests["color"] = [enabled |-> TRUE, width |-> 640, fps |-> 60]
    /\ requests["depth"] = stream_request

\* C15: a subdevice streams only on a handle whose set_mode has completed: the
\* handle is programmed and the registered callback holds its capture state.
C15_StreamingOnlyAfterSetMode ==
    \A i \in Subdevices :
        hw[i].streaming => (subdevices[i] = "moded" /\ hw[i].callback = "state")

\* C16: while a frame callback runs on a subdevice whose handle has been
\* destroyed, its capture state and every stream buffer of that state are
\* alive, and none of these buffers is a buffer slot of the session.
C16_CallbackOutlivesHandle ==
    \A i \in Subdevices :
        (cb[i].pc # "idle" /\ subdevices[i] = "null") =>
            /\ cstate[i] # 0
            /\ hw[i].callback = "state"
            /\ \A s \in Streams :
                  stream_subdevices[s] = i =>
                      IF cstate[i] # 0 /\ s \in ModeStreams(cstate[i])
                      THEN buf[s].alive /\ buf[s].moded /\ ~streams[s]
                      ELSE ~buf[s].alive

\* C16 witness: the session has been destroyed while a callback was about to
\* exchange back and middle of a buffer.
C16_Witness ==
    /\ lastOp = "destroyed"
    /\ \E i \in Subdevices : cb[i].pc = "swap" /\ subdevices[i] = "null"

\* C17: the consumer holds a buffer's mutex only for its front/middle
\* exchange, and a running frame callback can always take its next step unless
\* the consumer is inside that exchange, which it can then finish: whatever
\* else the consumer does or fails to do, the callback (a bounded number of
\* steps) completes as long as the process lives.
C17_ProducerNeverBlocked ==
    /\ \A s \in Streams :
          buf[s].mutex = "consumer" => (wait.pc = "swap" /\ WaitStream = s)
    /\ \A i \in Subdevices :
          (cb[i].pc # "idle" /\ ~crashed) =>
              \/ ENABLED Producer(i)
              \/ wait.pc = "swap" /\ ENABLED UpdateImageSwap

\* C17 witness: a callback waits for the mutex of the buffer whose front and
\* middle the consumer is exchanging.
C17_Witness ==
    \E i \in Subdevices :
        /\ cb[i].pc = "lock"
        /\ wait.pc = "swap"
        /\ WaitStream = StateStreams(i)[cb[i].k]
        /\ buf[WaitStream].mutex = "consumer"

\* C18: when stop_capture returns, from whatever state it was called in, no
\* subdevice is streaming and the session is not capturing; the call changes
\* neither the open subdevices, the buffer slots, the requests nor the
\* calibration (so a repeated call, or one on a session never started, changes
\* nothing of them either).
C18_StopCaptureStops ==
    [][StopCapture =>
          /\ \A i \in Subdevices : ~hw'[i].streaming
          /\ ~is_capturing'
          /\ subdevices' = subdevices
          /\ streams' = streams
          /\ requests' = requests
          /\ calib' = calib]_vars

\* C18 witness: stop_capture has returned on a session with an open subdevice
\* that had delivered a frame.
C18_Witness ==
    /\ lastOp = "stop" /\ ~is_capturing
    /\ \E i \in Subdevices :
          subdevices[i] # "null" /\ hw[i].frame >= 1 /\ ~hw[i].streaming

\* C19: whenever no session operation is in progress and the session is marked
\* capturing, every open subdevice is streaming (in sessions whose transport
\* calls have all succeeded).
C19_CapturingMeansStreaming ==
    (wait.pc = "idle" /\ ~hist.hwFailed /\ is_capturing) =>
        \A i \in OpenSubdevices : hw[i].streaming

\* The streams whose buffer a registered or running callback of subdevice i
\* references through its capture state.
CallbackStreams(i) ==
    IF hw[i].callback = "state" /\ cstate[i] # 0 THEN ModeStreams(cstate[i]) ELSE {}

\* C20: set_mode has run exactly once on every stream buffer; it never runs on
\* a buffer that a registered or running callback references, and the capture
\* state a callback has captured is never modified.
C20_SetModeOncePerBuffer ==
    [][/\ \A s \in Streams : buf'[s].alive => buf'[s].modes = 1
       /\ \A i \in Subdevices :
             /\ \A s \in CallbackStreams(i) :
                   buf'[s].alive => buf'[s].modes = buf[s].modes
             /\ hw[i].callback = "state" => cstate'[i] \in {cstate[i], 0}]_vars

====
